---- MODULE Spec2Model ----
(***************************************************************************)
(* The real-time alert channel of the portal's frontend: the singleton     *)
(* AlertWebSocket service (services/websocket), its sockets, its observer  *)
(* list and the desktop notifications it raises.                           *)
(*                                                                         *)
(* The host is a single-threaded event loop: every public method and every *)
(* socket or timer callback runs to completion, so each is one action,     *)
(* taken when no other handler is running; what it transmitted, which      *)
(* observers it called and what it logged stay visible until it returns    *)
(* to the event loop (Return).  A handler is written as an operator from   *)
(* the object's state `t` (a record of the fields of `this` and of what    *)
(* the handler has done) to the state it leaves; the actions commit that   *)
(* record to the variables.                                                *)
(***************************************************************************)
EXTENDS Integers, Sequences, FiniteSets, TLC

\* ------------------------------------------------------------- bounds
MaxSockets == 7       \* sockets ever created (connect() calls that reach new WebSocket)
MaxConnectCalls == 2  \* connect() calls made by the caller (not by a reconnect timer)
MaxPingLoops == 1     \* startPing() calls, each starting one setInterval loop
MaxCallbacks == 2     \* length of the callbacks array

\* -------------------------------------------------- program constants
maxReconnectAttempts == 5
reconnectInterval == 5000  \* milliseconds

NULL == 0
Observers == {1, 2}
AlertIds == {1, 2}

\* readyState of a WebSocket
ReadyStates == {"CONNECTING", "OPEN", "CLOSING", "CLOSED"}

\* Notification.permission; "unsupported" stands for a window without Notification
Permissions == {"default", "granted", "denied", "unsupported"}

\* ------------------------------------------------------------ AuthProvider
\* The bearer tokens localStorage may hold, by what decoding them gives: a
\* JWT whose exp claim is in the future or in the past, or a string that is
\* no JWT; NoToken when the key is absent.
Tokens == {"valid", "expired", "opaque"}
NoToken == "none"

\* user of the AuthProvider: null, the profile the server sent, or the
\* profile as updated by updateProfile
NoUser == "null"
Users == {"profile", "updated"}

\* ---------------------------------------------------------- inbound frames
\* The text of an inbound frame, by what JSON.parse makes of it: text that is
\* no JSON, the text "null", or an object with a type tag (and, for an alert,
\* an alert_id).
FrameTypes == {"alert", "integration_status", "pong", "subscribed", "error", "unknown"}

NoFrame == [json |-> "none", type |-> "", alert_id |-> 0]

InboundFrames ==
    {[json |-> "invalid", type |-> "", alert_id |-> 0],
     [json |-> "null", type |-> "", alert_id |-> 0]}
    \cup {[json |-> "object", type |-> "alert", alert_id |-> a] : a \in AlertIds}
    \cup {[json |-> "object", type |-> ty, alert_id |-> 0] : ty \in FrameTypes \ {"alert"}}

\* What an observer does when it is called: return, throw, or call
\* subscribe(arg) / unsubscribe(arg) on the channel and return.
Behaviours ==
    {[act |-> "return", arg |-> 0], [act |-> "throw", arg |-> 0]}
    \cup {[act |-> a, arg |-> o] : a \in {"subscribe", "unsubscribe"}, o \in Observers}

BehaviourSeqs(n) == [1..n -> Behaviours]

\* -------------------------------------------------------------- state
VARIABLES
    urlValid,           \* environment: new WebSocket(wsUrl) does not throw
    permission,         \* environment: Notification.permission
    socks,              \* readyState of every socket created, in creation order
    ws,                 \* this.ws: index into socks, or NULL
    callbacks,          \* this.callbacks
    reconnectAttempts,  \* this.reconnectAttempts
    isConnected,        \* this.isConnected
    timers,             \* pending reconnect timers (setTimeout of onclose)
    pingLoops,          \* running setInterval loops of startPing
    notifications,      \* tags of the visible desktop notifications
    task,               \* the handler that ran and has not returned yet:
                        \* [op, sock, frame, behs], op "idle" when none
    out,                \* frames that handler transmitted: <<[sock, data]>>
    calls,              \* observer calls it made: <<[cb, kind, payload, unsubd]>>
    log,                \* console lines it wrote
    sched,              \* delays of the reconnect timers it set (setTimeout)
    shown,              \* tags of the desktop notifications it created
    exc,                \* the exception it let escape, "none" when none
    connectCalls,       \* history: connect() calls made by the caller
    everOpened,         \* history: some socket's open event has fired
    phase,              \* history: "new", "disconnected" (disconnect() called, no
                        \* caller connect() since) or "again"
    exhausted,          \* history: a close event found the reconnect budget used
                        \* up, and the caller has not called connect() since
    unsubd,             \* history, per observer: "no", or since its last subscribe()
                        \* an unsubscribe() of it returned, having found a "single"
                        \* registration of it (or none) or "several"
    dash,               \* the Dashboard instances, one per mount; instance i
                        \* subscribes observer i: [state, setup, granted]
    prompt,             \* the browser's permission prompt is showing
    realtimeAlerts,     \* realtimeAlerts of the mounted Dashboard
    token,              \* localStorage 'token'
    user,               \* AuthProvider: user
    loading,            \* AuthProvider: loading
    requests            \* AuthProvider: server calls awaiting their response

vars == <<urlValid, permission, socks, ws, callbacks, reconnectAttempts, isConnected,
          timers, pingLoops, notifications, task, out, calls, log, sched, shown, exc,
          connectCalls, everOpened, phase, exhausted, unsubd,
          dash, prompt, realtimeAlerts, token, user, loading, requests>>

\* the state of the Dashboard component, and of the AuthProvider
dashboardVars == <<dash, prompt, realtimeAlerts>>
authVars == <<token, user, loading, requests>>

\* The object as a handler sees it, with nothing done yet.
This ==
    [socks |-> socks, ws |-> ws, callbacks |-> callbacks,
     reconnectAttempts |-> reconnectAttempts, isConnected |-> isConnected,
     timers |-> timers, pingLoops |-> pingLoops, notifications |-> notifications,
     unsubd |-> unsubd, out |-> <<>>, calls |-> <<>>, log |-> <<>>, sched |-> <<>>,
     shown |-> <<>>,
     exc |-> "none"]

Commit(t) ==
    /\ socks' = t.socks
    /\ ws' = t.ws
    /\ callbacks' = t.callbacks
    /\ reconnectAttempts' = t.reconnectAttempts
    /\ isConnected' = t.isConnected
    /\ timers' = t.timers
    /\ pingLoops' = t.pingLoops
    /\ notifications' = t.notifications
    /\ unsubd' = t.unsubd
    /\ out' = t.out
    /\ calls' = t.calls
    /\ log' = t.log
    /\ sched' = t.sched
    /\ shown' = t.shown
    /\ exc' = t.exc

Op(name, s, f, b) == [op |-> name, sock |-> s, frame |-> f, behs |-> b]

Idle == Op("idle", NULL, NoFrame, <<>>)

\* The event loop runs handler `name`, which leaves the object as t.
Run(name, s, f, b, t) ==
    /\ task = Idle
    /\ task' = Op(name, s, f, b)
    /\ Commit(t)
    /\ UNCHANGED <<dashboardVars, authVars>>

console(t, line) == [t EXCEPT !.log = Append(@, line)]

\* setTimeout(() => this.connect(), delay): one more pending reconnect timer
setTimeout(t, delay) == [t EXCEPT !.timers = @ + 1, !.sched = Append(@, delay)]

throw(t, e) == [t EXCEPT !.exc = e]

\* try { body } catch (error) { console.error(line) }, body having left r
catch(r, line) == IF r.exc # "none" THEN console([r EXCEPT !.exc = "none"], line) ELSE r

\* ------------------------------------------------------------- methods
Ping == [type |-> "ping", timestamp |-> "now"]
SubscribeMsg == [type |-> "subscribe", timestamp |-> "now"]
CustomMsg == [type |-> "custom", timestamp |-> "none"]

\* send trusting the handle without looking at readyState
send_unguarded(t, data) ==
    IF t.ws # NULL
    THEN [t EXCEPT !.out = Append(@, [sock |-> t.ws, data |-> data])]
    ELSE console(t, "warn: not connected")

send(t, data) ==
    IF t.ws # NULL /\ t.socks[t.ws] = "OPEN"
    THEN [t EXCEPT !.out = Append(@, [sock |-> t.ws, data |-> data])]
    ELSE console(t, "warn: not connected")

subscribe(t, callback) ==
    send([t EXCEPT !.callbacks = Append(@, callback), !.unsubd[callback] = "no"],
         SubscribeMsg)

\* Array.prototype.indexOf: the first index holding x, 0 when there is none
indexOf(seq, x) ==
    IF \E i \in 1..Len(seq) : seq[i] = x
    THEN CHOOSE i \in 1..Len(seq) : seq[i] = x /\ \A j \in 1..(i - 1) : seq[j] # x
    ELSE 0

\* Array.prototype.splice(index, 1)
splice(seq, i) == SubSeq(seq, 1, i - 1) \o SubSeq(seq, i + 1, Len(seq))

Has(seq, x) == \E i \in 1..Len(seq) : seq[i] = x

Count(seq, x) == Cardinality({i \in 1..Len(seq) : seq[i] = x})

\* unsubscribe testing `if (index)`: the first registration is never removed
unsubscribe_truthyIndex(t, callback) ==
    LET index == indexOf(t.callbacks, callback)
        u == IF index > 1 THEN [t EXCEPT !.callbacks = splice(@, index)] ELSE t
    IN  [u EXCEPT !.unsubd[callback] =
            IF Count(t.callbacks, callback) <= 1 THEN "single" ELSE "several"]

unsubscribe(t, callback) ==
    LET index == indexOf(t.callbacks, callback)
        u == IF index > 0 THEN [t EXCEPT !.callbacks = splice(@, index)] ELSE t
    IN  [u EXCEPT !.unsubd[callback] =
            IF Count(t.callbacks, callback) <= 1 THEN "single" ELSE "several"]

\* WebSocket.close(): a socket that is connecting or open starts closing
close(st) == IF st \in {"CONNECTING", "OPEN"} THEN "CLOSING" ELSE st

\* disconnect dropping the handle without closing the socket
disconnect_noClose(t) == [t EXCEPT !.ws = NULL, !.isConnected = FALSE, !.callbacks = <<>>]

\* disconnect also dropping the pending reconnect timers
disconnect_clearsTimers(t) ==
    LET u == IF t.ws # NULL
             THEN [t EXCEPT !.socks[t.ws] = close(@), !.ws = NULL]
             ELSE t
    IN  [u EXCEPT !.isConnected = FALSE, !.callbacks = <<>>, !.timers = 0]

disconnect(t) ==
    LET u == IF t.ws # NULL
             THEN [t EXCEPT !.socks[t.ws] = close(@), !.ws = NULL]
             ELSE t
    IN  [u EXCEPT !.isConnected = FALSE, !.callbacks = <<>>]

\* connect starting over with a fresh reconnect budget
connect_resetsAttempts(t) ==
    catch(IF urlValid
          THEN [t EXCEPT !.socks = Append(@, "CONNECTING"), !.ws = Len(t.socks) + 1,
                         !.reconnectAttempts = 0]
          ELSE throw(t, "SyntaxError"),
          "error: creating WebSocket")

\* new WebSocket(wsUrl) throws on a URL it does not accept
connect(t) ==
    catch(IF urlValid
          THEN [t EXCEPT !.socks = Append(@, "CONNECTING"), !.ws = Len(t.socks) + 1]
          ELSE throw(t, "SyntaxError"),
          "error: creating WebSocket")

startPing(t) == [t EXCEPT !.pingLoops = @ + 1]

\* the tick sending without looking at isConnected
pingTick_unguarded(t) == send(t, Ping)

\* the setInterval callback of startPing
pingTick(t) == IF t.isConnected THEN send(t, Ping) ELSE t

\* ------------------------------------------------------------ dispatch
\* the notification created without a tag: nothing is replaced
showAlertNotification_untagged(t, alertData) ==
    IF permission = "granted"
    THEN [t EXCEPT !.notifications = Append(@, alertData.alert_id),
                   !.shown = Append(@, alertData.alert_id)]
    ELSE t

\* new Notification(title, {tag}): the platform replaces a visible notification
\* that has the same tag
showAlertNotification(t, alertData) ==
    IF permission = "granted"
    THEN [t EXCEPT !.notifications =
            Append(SelectSeq(@, LAMBDA tag : tag # alertData.alert_id), alertData.alert_id),
                   !.shown = Append(@, alertData.alert_id)]
    ELSE t

\* The observer cb, called with (kind, payload), does b.
callback(t, cb, kind, payload, b) ==
    LET c == [t EXCEPT !.calls = Append(@, [cb |-> cb, kind |-> kind, payload |-> payload,
                                            unsubd |-> t.unsubd[cb]])]
    IN  CASE b.act = "return" -> c
          [] b.act = "throw" -> throw(c, "Error")
          [] b.act = "subscribe" -> subscribe(c, b.arg)
          [] b.act = "unsubscribe" -> unsubscribe(c, b.arg)

\* the observer called outside any try/catch
invoke_noCatch(t, cb, kind, payload, b) == callback(t, cb, kind, payload, b)

\* try { callback(kind, payload) } catch (error) { console.error(...) }
invoke(t, cb, kind, payload, b) ==
    catch(callback(t, cb, kind, payload, b), "error: callback")

\* forEach visiting the array from its last index to its first
RECURSIVE forEach_backwards(_, _, _, _, _, _)
forEach_backwards(t, k, len, kind, payload, behs) ==
    IF k > len \/ t.exc # "none" THEN t
    ELSE IF len + 1 - k > Len(t.callbacks)
         THEN forEach_backwards(t, k + 1, len, kind, payload, behs)
    ELSE forEach_backwards(invoke(t, t.callbacks[len + 1 - k], kind, payload,
                                  behs[len + 1 - k]),
                           k + 1, len, kind, payload, behs)

\* this.callbacks.forEach(callback => ...): Array.prototype.forEach reads the
\* length once, then visits index k = 1..len in the array as it is by then,
\* skipping an index the array no longer has; an exception ends it.
RECURSIVE forEach(_, _, _, _, _, _)
forEach(t, k, len, kind, payload, behs) ==
    IF k > len \/ t.exc # "none" THEN t
    ELSE IF k > Len(t.callbacks) THEN forEach(t, k + 1, len, kind, payload, behs)
    ELSE forEach(invoke(t, t.callbacks[k], kind, payload, behs[k]),
                 k + 1, len, kind, payload, behs)

handleNewAlert(t, alertData, behs) ==
    LET u == forEach(console(t, "alert"), 1, Len(t.callbacks), "alert", alertData, behs)
    IN  IF u.exc # "none" THEN u ELSE showAlertNotification(u, alertData)

handleIntegrationStatus(t, statusData, behs) ==
    forEach(console(t, "status"), 1, Len(t.callbacks), "integration_status", statusData, behs)

\* switch (data.type): reading .type of null throws
handleMessage(t, data, behs) ==
    IF data.isNull THEN throw(t, "TypeError")
    ELSE CASE data.type = "alert" -> handleNewAlert(t, data.value, behs)
           [] data.type = "integration_status" -> handleIntegrationStatus(t, data.value, behs)
           [] data.type = "pong" -> console(t, "pong")
           [] data.type = "subscribed" -> console(t, "subscribed")
           [] data.type = "error" -> console(t, "error: server")
           [] OTHER -> console(t, "message")

\* JSON.parse(event.data): throws on text that is no JSON; the text "null"
\* parses to null, any other text of the model to the object it writes.
JSONParse(text) ==
    [threw |-> text.json = "invalid", isNull |-> text.json = "null", type |-> text.type,
     value |-> [type |-> text.type, alert_id |-> text.alert_id]]

\* ------------------------------------------------------ socket handlers
\* onopen leaving the attempt counter as it was
onopen_noReset(t) == send(console([t EXCEPT !.isConnected = TRUE], "connected"), Ping)

\* onopen announcing the registered observers again on the new connection
onopen_resubscribes(t) ==
    LET u == send(console([t EXCEPT !.isConnected = TRUE, !.reconnectAttempts = 0],
                          "connected"), Ping)
    IN  IF u.callbacks # <<>> THEN send(u, SubscribeMsg) ELSE u

onopen(t) ==
    send(console([t EXCEPT !.isConnected = TRUE, !.reconnectAttempts = 0], "connected"),
         Ping)

\* onmessage without its try/catch
onmessage_noCatch(t, event, behs) ==
    LET data == JSONParse(event)
    IN  IF data.threw THEN throw(t, "SyntaxError") ELSE handleMessage(t, data, behs)

onmessage(t, event, behs) ==
    LET data == JSONParse(event)
    IN  catch(IF data.threw THEN throw(t, "SyntaxError") ELSE handleMessage(t, data, behs),
              "error: parsing")

\* onclose comparing with <= : one reconnect too many
onclose_offByOne(t) ==
    LET u == console([t EXCEPT !.isConnected = FALSE], "disconnected")
    IN  IF u.reconnectAttempts <= maxReconnectAttempts
        THEN setTimeout(console([u EXCEPT !.reconnectAttempts = @ + 1], "retry"),
                        reconnectInterval)
        ELSE console(u, "error: max attempts")

\* onclose forgetting to count the attempt
onclose_noCount(t) ==
    LET u == console([t EXCEPT !.isConnected = FALSE], "disconnected")
    IN  IF u.reconnectAttempts < maxReconnectAttempts
        THEN setTimeout(console(u, "retry"), reconnectInterval)
        ELSE console(u, "error: max attempts")

\* onclose telling the observers that the channel has given up
onclose_notifies(t) ==
    LET u == console([t EXCEPT !.isConnected = FALSE], "disconnected")
    IN  IF u.reconnectAttempts < maxReconnectAttempts
        THEN setTimeout(console([u EXCEPT !.reconnectAttempts = @ + 1], "retry"),
                        reconnectInterval)
        ELSE forEach(console(u, "error: max attempts"), 1, Len(u.callbacks), "disconnected",
                     [type |-> "disconnected", alert_id |-> 0],
                     [i \in 1..Len(u.callbacks) |-> [act |-> "return", arg |-> 0]])

\* onclose waiting longer before each further attempt
onclose_backoff(t) ==
    LET u == console([t EXCEPT !.isConnected = FALSE], "disconnected")
    IN  IF u.reconnectAttempts < maxReconnectAttempts
        THEN setTimeout(console([u EXCEPT !.reconnectAttempts = @ + 1], "retry"),
                        reconnectInterval * (u.reconnectAttempts + 1))
        ELSE console(u, "error: max attempts")

onclose(t) ==
    LET u == console([t EXCEPT !.isConnected = FALSE], "disconnected")
    IN  IF u.reconnectAttempts < maxReconnectAttempts
        THEN setTimeout(console([u EXCEPT !.reconnectAttempts = @ + 1], "retry"),
                        reconnectInterval)
        ELSE console(u, "error: max attempts")

onerror(t) == console(t, "error: socket")

\* ---------------------------------------------------------------- init
\* The state after `new AlertWebSocket()`, in an environment that is fixed for
\* the page's life: the configured URL is one new WebSocket accepts or not, and
\* the notification permission is whatever the browser holds.
Init ==
    /\ urlValid \in BOOLEAN
    /\ permission \in Permissions
    /\ socks = <<>>
    /\ ws = NULL
    /\ callbacks = <<>>
    /\ reconnectAttempts = 0
    /\ isConnected = FALSE
    /\ timers = 0
    /\ pingLoops = 0
    /\ notifications = <<>>
    /\ out = <<>>
    /\ calls = <<>>
    /\ log = <<>>
    /\ sched = <<>>
    /\ shown = <<>>
    /\ exc = "none"
    /\ task = Idle
    /\ connectCalls = 0
    /\ everOpened = FALSE
    /\ phase = "new"
    /\ exhausted = FALSE
    /\ unsubd = [o \in Observers |-> "no"]
    /\ dash = [i \in Observers |-> [state |-> "new", setup |-> "none", granted |-> "none"]]
    /\ prompt = FALSE
    /\ realtimeAlerts = <<>>
    /\ token \in Tokens \cup {NoToken}
    /\ user = NoUser
    /\ loading = TRUE
    /\ requests = {}

Env == <<urlValid, permission>>

\* ------------------------------------------------ the caller's operations
Connect ==
    /\ Run("connect", NULL, NoFrame, <<>>, connect(This))
    /\ connectCalls' = connectCalls + 1
    /\ phase' = IF phase = "new" THEN "new" ELSE "again"
    /\ exhausted' = FALSE
    /\ UNCHANGED <<Env, everOpened>>

Disconnect ==
    /\ Run("disconnect", NULL, NoFrame, <<>>, disconnect(This))
    /\ phase' = "disconnected"
    /\ UNCHANGED <<Env, connectCalls, everOpened, exhausted>>

Subscribe(o) ==
    /\ Run("subscribe", o, NoFrame, <<>>, subscribe(This, o))
    /\ UNCHANGED <<Env, connectCalls, everOpened, phase, exhausted>>

Unsubscribe(o) ==
    /\ Run("unsubscribe", o, NoFrame, <<>>, unsubscribe(This, o))
    /\ UNCHANGED <<Env, connectCalls, everOpened, phase, exhausted>>

Send ==
    /\ Run("send", NULL, NoFrame, <<>>, send(This, CustomMsg))
    /\ UNCHANGED <<Env, connectCalls, everOpened, phase, exhausted>>

StartPing ==
    /\ Run("startPing", NULL, NoFrame, <<>>, startPing(This))
    /\ UNCHANGED <<Env, connectCalls, everOpened, phase, exhausted>>

\* ------------------------------------------------- the event loop's callbacks
\* The open event of socket s: the platform sets readyState to OPEN and runs
\* onopen in the same task.
OnOpen(s) ==
    /\ socks[s] = "CONNECTING"
    /\ Run("open", s, NoFrame, <<>>, onopen([This EXCEPT !.socks[s] = "OPEN"]))
    /\ everOpened' = TRUE
    /\ UNCHANGED <<Env, connectCalls, phase, exhausted>>

\* A message event of socket s: fired only while s is open.
OnMessage(s, event, behs) ==
    /\ socks[s] = "OPEN"
    /\ Run("message", s, event, behs, onmessage(This, event, behs))
    /\ UNCHANGED <<Env, connectCalls, everOpened, phase, exhausted>>

\* The close event of socket s (closed by close(), by the server, by the
\* network, or a connection that failed): readyState becomes CLOSED and onclose
\* runs in the same task.
OnClose(s) ==
    /\ socks[s] # "CLOSED"
    /\ Run("close", s, NoFrame, <<>>, onclose([This EXCEPT !.socks[s] = "CLOSED"]))
    /\ exhausted' = (exhausted \/ reconnectAttempts = maxReconnectAttempts)
    /\ UNCHANGED <<Env, connectCalls, everOpened, phase>>

\* The error event of socket s.
OnError(s) ==
    /\ socks[s] # "CLOSED"
    /\ Run("error", s, NoFrame, <<>>, onerror(This))
    /\ UNCHANGED <<Env, connectCalls, everOpened, phase, exhausted>>

\* A reconnect timer set by onclose fires: () => this.connect()
ReconnectTimer ==
    /\ timers > 0
    /\ Run("timer", NULL, NoFrame, <<>>, connect([This EXCEPT !.timers = @ - 1]))
    /\ UNCHANGED <<Env, connectCalls, everOpened, phase, exhausted>>

\* One tick of one startPing loop.
PingTick ==
    /\ pingLoops > 0
    /\ Run("pingTick", NULL, NoFrame, <<>>, pingTick(This))
    /\ UNCHANGED <<Env, connectCalls, everOpened, phase, exhausted>>

\* A visible notification goes away: its 10 s timer, a click, or the user.
NotificationClose(tag) ==
    /\ Has(notifications, tag)
    /\ Run("notificationClose", tag, NoFrame, <<>>, [This EXCEPT !.notifications = SelectSeq(@, LAMBDA x : x # tag)])
    /\ UNCHANGED <<Env, connectCalls, everOpened, phase, exhausted>>

\* Notification.permission changes between two handlers: the user answers the
\* prompt, or grants or revokes the permission in the browser's settings. A
\* window without Notification never gets one.
PermissionChange(p) ==
    /\ task = Idle
    /\ permission # "unsupported"
    /\ p \in Permissions \ {"unsupported", permission}
    /\ permission' = p
    /\ UNCHANGED <<urlValid, socks, ws, callbacks, reconnectAttempts, isConnected, timers,
                   pingLoops, notifications, task, out, calls, log, sched, shown, exc,
                   connectCalls, everOpened, phase, exhausted, unsubd,
                   dashboardVars, authVars>>

\* ----------------------------------------------------------- AuthProvider
\* isTokenValid: no token, or one that does not decode, is invalid; a decoded
\* one is valid when its exp claim is after the current time
isTokenValid(tok) ==
    IF tok = NoToken THEN FALSE
    ELSE IF tok = "opaque" THEN FALSE
    ELSE tok # "expired"

channelVars == <<urlValid, permission, socks, ws, callbacks, reconnectAttempts, isConnected,
                 timers, pingLoops, notifications, task, out, calls, log, sched, shown,
                 exc, connectCalls, everOpened, phase, exhausted, unsubd>>

AuthOps ==
    {"getProfile", "login", "logout", "updateProfile", "changePassword", "refreshToken"}

\* what the server makes of a call: success, 401, or any other failure
Outcomes == {"ok", "401", "error"}

\* an async function of the AuthProvider calls the server and awaits
Call(op) ==
    /\ op \in AuthOps \ requests
    /\ requests' = requests \cup {op}
    /\ UNCHANGED <<token, user, loading, channelVars, dashboardVars>>

\* initAuth: a stored token, whatever it is, is used to fetch the profile
initAuth(tok) == tok # NoToken

\* The effect of the AuthProvider at application start.
InitAuth ==
    /\ loading
    /\ "getProfile" \notin requests
    /\ IF initAuth(token)
       THEN requests' = requests \cup {"getProfile"} /\ loading' = loading
       ELSE requests' = requests /\ loading' = FALSE
    /\ UNCHANGED <<token, user, channelVars, dashboardVars>>

\* initAuth after await authService.getProfile()
GetProfileResponse(outcome) ==
    /\ "getProfile" \in requests
    /\ requests' = requests \ {"getProfile"}
    /\ loading' = FALSE
    /\ CASE outcome = "ok" -> user' = "profile" /\ token' = token
         [] outcome = "401" -> user' = NoUser /\ token' = NoToken
         [] OTHER -> UNCHANGED <<user, token>>
    /\ UNCHANGED <<channelVars, dashboardVars>>

\* login(email, password), from the login form
Login == ~loading /\ user = NoUser /\ Call("login")

LoginResponse(outcome) ==
    /\ "login" \in requests
    /\ requests' = requests \ {"login"}
    /\ IF outcome = "ok"
       THEN token' = "valid" /\ user' = "profile"
       ELSE UNCHANGED <<token, user>>
    /\ UNCHANGED <<loading, channelVars, dashboardVars>>

\* loginWithToken(token, userData), called by the Login component
LoginWithToken ==
    /\ ~loading /\ user = NoUser
    /\ token' = "valid"
    /\ user' = "profile"
    /\ UNCHANGED <<loading, requests, channelVars, dashboardVars>>

\* logout(), from the header of a signed-in page
Logout == ~loading /\ user # NoUser /\ Call("logout")

\* logout's finally block, whether the server call succeeded or failed
LogoutResponse(outcome) ==
    /\ "logout" \in requests
    /\ requests' = requests \ {"logout"}
    /\ token' = NoToken
    /\ user' = NoUser
    /\ UNCHANGED <<loading, channelVars, dashboardVars>>

\* updateProfile(profileData), from a signed-in page
UpdateProfile == ~loading /\ user # NoUser /\ Call("updateProfile")

UpdateProfileResponse(outcome) ==
    /\ "updateProfile" \in requests
    /\ requests' = requests \ {"updateProfile"}
    /\ user' = IF outcome = "ok" THEN "updated" ELSE user
    /\ UNCHANGED <<token, loading, channelVars, dashboardVars>>

\* changePassword(oldPassword, newPassword), from a signed-in page
ChangePassword == ~loading /\ user # NoUser /\ Call("changePassword")

ChangePasswordResponse(outcome) ==
    /\ "changePassword" \in requests
    /\ requests' = requests \ {"changePassword"}
    /\ UNCHANGED <<token, user, loading, channelVars, dashboardVars>>

\* refreshToken(), from a signed-in page
RefreshToken == ~loading /\ user # NoUser /\ Call("refreshToken")

RefreshTokenResponse(outcome) ==
    /\ "refreshToken" \in requests
    /\ requests' = requests \ {"refreshToken"}
    /\ IF outcome = "ok"
       THEN token' = "valid" /\ user' = user
       ELSE token' = NoToken /\ user' = NoUser
    /\ UNCHANGED <<loading, channelVars, dashboardVars>>

\* -------------------------------------------------------------- Dashboard
\* requestNotificationPermission() up to its await: with Notification in the
\* window and the permission undetermined it calls
\* Notification.requestPermission(), the browser prompts and the result waits
\* for the answer; in every other case it returns at once.
requestNotificationPermission_asksAgain(p) ==
    IF p # "unsupported"
    THEN IF p # "granted"
         THEN [prompts |-> TRUE, returns |-> "none"]
         ELSE [prompts |-> FALSE, returns |-> "true"]
    ELSE [prompts |-> FALSE, returns |-> "false"]

requestNotificationPermission(p) ==
    IF p # "unsupported"
    THEN IF p = "default"
         THEN [prompts |-> TRUE, returns |-> "none"]
         ELSE [prompts |-> FALSE, returns |-> IF p = "granted" THEN "true" ELSE "false"]
    ELSE [prompts |-> FALSE, returns |-> "false"]

\* ... and after it: return permission === 'granted', permission being the answer
requestPermissionAnswered(answer) == IF answer = "granted" THEN "true" ELSE "false"

\* setupWebSocket of instance i has its await fulfilled and its continuation
\* queued: it runs before any other event
Queued(i) == dash[i].setup = "awaiting" /\ dash[i].granted # "none"

NoneQueued == \A i \in Observers : ~Queued(i)

\* React mounts the Dashboard (one at a time, a new instance at each mount):
\* the effect calls setupWebSocket(), which runs up to its await.
Mount(i) ==
    /\ task = Idle
    /\ NoneQueued
    /\ dash[i].state = "new"
    /\ \A j \in Observers : dash[j].state # "mounted" /\ (j < i => dash[j].state # "new")
    /\ LET r == requestNotificationPermission(permission)
       IN  /\ dash' = [dash EXCEPT ![i] = [state |-> "mounted", setup |-> "awaiting",
                                           granted |-> r.returns]]
           /\ prompt' = (prompt \/ r.prompts)
    /\ realtimeAlerts' = <<>>
    /\ UNCHANGED <<Env, socks, ws, callbacks, reconnectAttempts, isConnected, timers,
                   pingLoops, notifications, task, out, calls, log, sched, shown, exc,
                   connectCalls, everOpened, phase, exhausted, unsubd, authVars>>

\* The user answers the prompt (or dismisses it: 'default'): the pending
\* requestNotificationPermission() calls return.
PromptAnswer(answer) ==
    /\ task = Idle
    /\ NoneQueued
    /\ prompt
    /\ answer \in Permissions \ {"unsupported"}
    /\ permission' = answer
    /\ prompt' = FALSE
    /\ dash' = [i \in Observers |->
                  IF dash[i].setup = "awaiting" /\ dash[i].granted = "none"
                  THEN [dash[i] EXCEPT !.granted = requestPermissionAnswered(answer)]
                  ELSE dash[i]]
    /\ UNCHANGED <<urlValid, socks, ws, callbacks, reconnectAttempts, isConnected, timers,
                   pingLoops, notifications, task, out, calls, log, sched, shown, exc,
                   connectCalls, everOpened, phase, exhausted, unsubd, realtimeAlerts,
                   authVars>>

\* setupWebSocket of instance i after its await: subscribe, connect, startPing
\* (whether or not the instance is still mounted).
SetupContinue(i) ==
    /\ task = Idle
    /\ Queued(i)
    /\ task' = Op("setup", i, NoFrame, <<>>)
    /\ Commit(startPing(connect(subscribe(This, i))))
    /\ dash' = [dash EXCEPT ![i].setup = "done"]
    /\ connectCalls' = connectCalls + 1
    /\ phase' = IF phase = "new" THEN "new" ELSE "again"
    /\ exhausted' = FALSE
    /\ UNCHANGED <<Env, everOpened, prompt, realtimeAlerts, authVars>>

\* React unmounts instance i: the effect's cleanup calls disconnect().
Unmount(i) ==
    /\ task = Idle
    /\ NoneQueued
    /\ dash[i].state = "mounted"
    /\ task' = Op("unmount", i, NoFrame, <<>>)
    /\ Commit(disconnect(This))
    /\ dash' = [dash EXCEPT ![i].state = "unmounted"]
    /\ realtimeAlerts' = <<>>
    /\ phase' = "disconnected"
    /\ UNCHANGED <<Env, connectCalls, everOpened, exhausted, prompt, authVars>>

\* The running handler returns to the event loop.
Return ==
    /\ task # Idle
    /\ task' = Idle
    /\ out' = <<>>
    /\ calls' = <<>>
    /\ log' = <<>>
    /\ sched' = <<>>
    /\ shown' = <<>>
    /\ exc' = "none"
    /\ UNCHANGED <<Env, socks, ws, callbacks, reconnectAttempts, isConnected, timers,
                   pingLoops, notifications, connectCalls, everOpened, phase, exhausted,
                   unsubd, dashboardVars, authVars>>

Sockets == 1..Len(socks)

\* The callbacks forEach will index when the frame arrives: the length of the
\* array for a frame that is fanned out, none for any other.
Visits(event) ==
    IF event.json = "object" /\ event.type \in {"alert", "integration_status"}
    THEN Len(callbacks)
    ELSE 0

\* the updater keeping one entry more than it should
setRealtimeAlerts_keepsTen(prev, alertData) ==
    <<alertData>> \o SubSeq(prev, 1, IF Len(prev) < 10 THEN Len(prev) ELSE 10)

\* setRealtimeAlerts(prev => [alertData, ...prev.slice(0, 9)])
setRealtimeAlerts(prev, alertData) ==
    <<alertData>> \o SubSeq(prev, 1, IF Len(prev) < 9 THEN Len(prev) ELSE 9)

\* The observers that the Dashboard instances subscribed are called in turn:
\* the closure of instance cs[i].cb hands an 'alert' to its handleNewAlert
\* and ignores any other kind; a state update of an instance that is no
\* longer mounted changes nothing.
RECURSIVE observed(_, _, _)
observed(list, cs, i) ==
    IF i > Len(cs)
    THEN list
    ELSE observed(IF cs[i].kind = "alert" /\ dash[cs[i].cb].state = "mounted"
                  THEN setRealtimeAlerts(list, cs[i].payload.alert_id)
                  ELSE list,
                  cs, i + 1)

\* A message event of socket s while the observers are those of the
\* Dashboard: each returns after updating its component.
DashboardMessage(s, event) ==
    /\ task = Idle
    /\ socks[s] = "OPEN"
    /\ LET behs == [i \in 1..Visits(event) |-> [act |-> "return", arg |-> 0]]
           t == onmessage(This, event, behs)
       IN  /\ task' = Op("message", s, event, behs)
           /\ Commit(t)
           /\ realtimeAlerts' = observed(realtimeAlerts, t.calls, 1)
    /\ UNCHANGED <<Env, connectCalls, everOpened, phase, exhausted, dash, prompt,
                   authVars>>

\* --------------------------------------------------------- specifications
\* The connection's life: the caller connects, disconnects, sends and
\* subscribes; sockets open, close and fail; reconnect timers and heartbeat
\* ticks fire.
Next ==
    \/ connectCalls < MaxConnectCalls /\ Len(socks) < MaxSockets /\ Connect
    \/ Disconnect
    \/ Send
    \/ \E o \in Observers : ~Has(callbacks, o) /\ Subscribe(o)
    \/ \E s \in Sockets : OnOpen(s)
    \/ \E s \in Sockets : OnClose(s)
    \/ \E s \in Sockets : OnError(s)
    \/ Len(socks) < MaxSockets /\ ReconnectTimer
    \/ Return

\* An environment where sockets can be created and notifications are shown.
InitWorking == Init /\ urlValid = TRUE /\ permission = "granted" /\ token = NoToken

Spec == InitWorking /\ [][Next]_vars

\* The dispatch on the channel's first connection: any observer list, any
\* inbound frame, observers that return, throw, subscribe and unsubscribe, a
\* socket that opens, closes and is disconnected (a reconnect timer set by the
\* close stays pending).
NextDispatch ==
    \/ socks = <<>> /\ Connect
    \/ Disconnect
    \/ \E o \in Observers : Len(callbacks) < MaxCallbacks /\ Subscribe(o)
    \/ \E o \in Observers : Unsubscribe(o)
    \/ \E s \in Sockets : OnOpen(s)
    \/ \E s \in Sockets :
          /\ task = Idle /\ socks[s] = "OPEN"
          /\ \E event \in InboundFrames : \E behs \in BehaviourSeqs(Visits(event)) :
                /\ OnMessage(s, event, behs)
                /\ Len(callbacks') <= MaxCallbacks
    \/ \E s \in Sockets : OnClose(s)
    \/ \E tag \in AlertIds : NotificationClose(tag)
    \/ Return

SpecDispatch == InitWorking /\ [][NextDispatch]_vars

\* The whole channel on one caller's connection: the dispatch above, together
\* with socket errors and the reconnect timers, so that a connection is lost,
\* retried, re-established or given up while observers are registered.
NextChannel ==
    \/ NextDispatch
    \/ \E s \in Sockets : OnError(s)
    \/ Len(socks) < MaxSockets /\ ReconnectTimer

SpecChannel == InitWorking /\ [][NextChannel]_vars

\* The connection's life with the heartbeat: startPing() is called and its
\* interval fires at any moment of it.
NextHeartbeat ==
    \/ Next
    \/ pingLoops < MaxPingLoops /\ StartPing
    \/ PingTick

SpecHeartbeat == InitWorking /\ [][NextHeartbeat]_vars

\* The connection's life in either environment: the configured URL may be one
\* that new WebSocket rejects.
InitAnyUrl == Init /\ permission = "granted" /\ token = NoToken

SpecAnyUrl == InitAnyUrl /\ [][Next]_vars

\* The dispatch under any notification permission, which the user may change
\* while the page lives.
InitAnyPermission == Init /\ urlValid = TRUE /\ token = NoToken

NextNotify ==
    \/ NextDispatch
    \/ \E p \in Permissions : PermissionChange(p)

SpecNotify == InitAnyPermission /\ [][NextNotify]_vars

\* The Dashboard on the shared channel: it is mounted and unmounted, the user
\* answers the permission prompt sooner or later, sockets open and close,
\* reconnect timers and heartbeat ticks fire.
NextDashboard ==
    \/ \E i \in Observers : Mount(i)
    \/ \E answer \in Permissions : PromptAnswer(answer)
    \/ \E i \in Observers : Len(socks) < MaxSockets /\ SetupContinue(i)
    \/ \E i \in Observers : Unmount(i)
    \/ \E s \in Sockets : NoneQueued /\ OnOpen(s)
    \/ \E s \in Sockets : NoneQueued /\ OnClose(s)
    \/ NoneQueued /\ Len(socks) < MaxSockets /\ ReconnectTimer
    \/ NoneQueued /\ PingTick
    \/ Return

SpecDashboard == InitAnyPermission /\ [][NextDashboard]_vars

\* The Dashboard's list of realtime alerts: the Dashboard is mounted and
\* unmounted, its socket opens, and frames of every kind arrive on the open
\* sockets, alerts among them, more than the list keeps.
NextRealtime ==
    \/ \E i \in Observers : Mount(i)
    \/ \E answer \in Permissions : PromptAnswer(answer)
    \/ \E i \in Observers : Len(socks) < MaxSockets /\ SetupContinue(i)
    \/ \E i \in Observers : Unmount(i)
    \/ \E s \in Sockets : NoneQueued /\ OnOpen(s)
    \/ \E s \in Sockets : \E event \in InboundFrames :
          NoneQueued /\ DashboardMessage(s, event)
    \/ Return

SpecRealtime == InitAnyPermission /\ [][NextRealtime]_vars

\* The AuthProvider: the application starts with whatever token localStorage
\* holds; the user signs in, updates the profile, refreshes the token and signs
\* out, and the server's responses arrive in any order.
NextAuth ==
    \/ InitAuth
    \/ \E outcome \in Outcomes : GetProfileResponse(outcome)
    \/ Login
    \/ \E outcome \in Outcomes : LoginResponse(outcome)
    \/ LoginWithToken
    \/ Logout
    \/ \E outcome \in Outcomes : LogoutResponse(outcome)
    \/ UpdateProfile
    \/ \E outcome \in Outcomes : UpdateProfileResponse(outcome)
    \/ ChangePassword
    \/ \E outcome \in Outcomes : ChangePasswordResponse(outcome)
    \/ RefreshToken
    \/ \E outcome \in Outcomes : RefreshTokenResponse(outcome)

InitAuthProvider == Init /\ urlValid = TRUE /\ permission = "granted"

SpecAuth == InitAuthProvider /\ [][NextAuth]_vars

\* ------------------------------------------------------------------ claims
AllClosed == \A s \in Sockets : socks[s] = "CLOSED"

\* C1: after an explicit disconnect() no socket is created by the channel
\* itself: while disconnect() is the caller's last lifecycle call, no step
\* creates a socket.
C1_NoReconnectAfterDisconnect ==
    [][(phase = "disconnected" /\ phase' = "disconnected") => Len(socks') = Len(socks)]_vars

\* C2: in every reachable state 0 <= reconnectAttempts <= maxReconnectAttempts.
C2_AttemptsWithinBudget ==
    reconnectAttempts >= 0 /\ reconnectAttempts <= maxReconnectAttempts

\* a close event that found the budget used up, another socket still alive
C2_Witness ==
    /\ task.op = "close"
    /\ exhausted
    /\ reconnectAttempts = maxReconnectAttempts
    /\ \E s \in Sockets : socks[s] # "CLOSED"

\* C3: once a close event has found the budget used up, the channel stays
\* disconnected with the counter at its maximum, until the caller connects again.
C3_ExhaustedIsTerminal ==
    exhausted => (~isConnected /\ reconnectAttempts = maxReconnectAttempts)

\* One connect() call by the caller on the new channel, no disconnect(), and
\* no socket has opened: every attempt so far has ended in a close or is pending.
FailureOnlyRun == connectCalls = 1 /\ ~everOpened /\ phase = "new"

\* C4: in a run of one connect() where no attempt opens, every reconnect
\* scheduled is counted, at most maxReconnectAttempts + 1 sockets are created,
\* the close of the last one schedules nothing, and the run is at rest (no
\* pending timer, no live socket) only after exactly that many attempts.
C4_RetryingTerminates ==
    FailureOnlyRun =>
        /\ Len(socks) + timers = 1 + reconnectAttempts
        /\ Len(socks) <= maxReconnectAttempts + 1
        /\ timers <= 1
        /\ (timers = 0 /\ AllClosed) =>
              (Len(socks) = maxReconnectAttempts + 1 /\ reconnectAttempts = maxReconnectAttempts)

\* the close of the sixth attempt: nothing pending, nothing alive
C4_Witness ==
    /\ FailureOnlyRun
    /\ task.op = "close"
    /\ Len(socks) = maxReconnectAttempts + 1
    /\ AllClosed
    /\ timers = 0
    /\ log = <<"disconnected", "error: max attempts">>

FanOut(f) == f.json = "object" /\ f.type \in {"alert", "integration_status"}

CallsTo(o) == Cardinality({i \in DOMAIN calls : calls[i].cb = o})

\* the observers some callback of the fan-out asks to unsubscribe
UnsubscribedBy(behs) ==
    {behs[i].arg : i \in {j \in DOMAIN behs : behs[j].act = "unsubscribe"}}

\* C5: every observer registered when an alert frame arrives receives the
\* ('alert', payload) call for that frame, once for each of its registrations,
\* whatever the observers do in their callbacks (stated here for the observers
\* that no callback of the fan-out unsubscribes).
C5_RegisteredObserversAllCalled ==
    [][(task'.op = "message" /\ task'.frame.json = "object" /\ task'.frame.type = "alert") =>
          \A o \in Observers :
              (Has(callbacks, o) /\ o \notin UnsubscribedBy(task'.behs)) =>
                  CallsTo(o)' = Count(callbacks, o)]_vars

\* C6 as claimed: an observer is never called once an unsubscribe() of it has
\* returned (and it has not been subscribed again).
C6_NeverCalledAfterUnsubscribe ==
    \A i \in DOMAIN calls : calls[i].unsubd = "no"

\* C6 as amended: an observer that had at most one registration when
\* unsubscribe() of it was called is never called afterwards, until it is
\* subscribed again.
C6_SingleRegistrationNeverCalledAfterUnsubscribe ==
    \A i \in DOMAIN calls : calls[i].unsubd # "single"

\* a frame fanned out to the other observer after one was unsubscribed
C6_Witness ==
    /\ task.op = "message"
    /\ calls # <<>>
    /\ \E o \in Observers : unsubd[o] = "single" /\ CallsTo(o) = 0

Throws(behs) == {i \in DOMAIN behs : behs[i].act = "throw"}

\* behs with every throw replaced by a plain return
Unthrow(behs) ==
    [i \in DOMAIN behs |->
        IF behs[i].act = "throw" THEN [act |-> "return", arg |-> 0] ELSE behs[i]]

\* C7: when an observer throws during the fan-out of an alert or
\* integration_status frame, nothing escapes the message handler, the
\* connection state, the sockets and the reconnect counter are unchanged, the
\* same observers are called as if it had returned, and where observers only
\* return or throw every registered observer is called, in order, with the
\* frame, one error being logged for each throw.
C7_ThrowingObserverIsIsolated ==
    [][(task'.op = "message" /\ FanOut(task'.frame) /\ Throws(task'.behs) # {}) =>
          /\ exc' = "none"
          /\ UNCHANGED <<socks, ws, isConnected, reconnectAttempts, timers>>
          /\ calls' = onmessage(This, task'.frame, Unthrow(task'.behs)).calls
          /\ (\A i \in DOMAIN task'.behs : task'.behs[i].act \in {"return", "throw"}) =>
                /\ Len(calls') = Len(callbacks)
                /\ \A i \in DOMAIN calls' :
                      /\ calls'[i].cb = callbacks[i]
                      /\ calls'[i].kind = task'.frame.type
                      /\ calls'[i].payload = [type |-> task'.frame.type,
                                              alert_id |-> task'.frame.alert_id]
                /\ Cardinality({i \in DOMAIN log' : log'[i] = "error: callback"})
                      = Cardinality(Throws(task'.behs))]_vars

\* the first of two observers threw, the second was still called
C7_Witness ==
    /\ task.op = "message"
    /\ FanOut(task.frame)
    /\ Len(task.behs) = 2
    /\ task.behs[1].act = "throw"
    /\ task.behs[2].act = "return"
    /\ Len(calls) = 2
    /\ calls[1].cb # calls[2].cb

\* C8: a frame whose text is no JSON (or is the JSON null) is dropped: the
\* handler calls no observer, shows no notification, transmits nothing, lets
\* nothing escape, logs the parse error, and leaves the sockets, the handle,
\* isConnected, reconnectAttempts, the timers and the observer list as they
\* were, so that the frames that follow are handled from the same state.
C8_MalformedFrameIsDropped ==
    [][(task'.op = "message" /\ task'.frame.json \in {"invalid", "null"}) =>
          /\ calls' = <<>>
          /\ out' = <<>>
          /\ exc' = "none"
          /\ log' = <<"error: parsing">>
          /\ UNCHANGED <<notifications, socks, ws, isConnected, reconnectAttempts,
                         timers, callbacks, unsubd>>]_vars

\* text that is no JSON arrived on the open connection, observers registered
C8_Witness ==
    /\ task.op = "message"
    /\ task.frame.json = "invalid"
    /\ callbacks # <<>>
    /\ isConnected
    /\ ws # NULL /\ socks[ws] = "OPEN"

\* C9: send() on a channel whose handle is null or not open transmits nothing,
\* lets nothing escape and changes no field; and a frame given to send() is
\* transmitted by that very call, on an open handle, or never (no other
\* handler transmits it later).
C9_SendOnlyWhenOpen ==
    [][/\ (task'.op = "send" /\ ~(ws # NULL /\ socks[ws] = "OPEN")) =>
             /\ out' = <<>>
             /\ exc' = "none"
             /\ UNCHANGED <<socks, ws, callbacks, reconnectAttempts, isConnected, timers,
                            pingLoops, notifications>>
       /\ \A i \in DOMAIN out' :
             out'[i].data = CustomMsg =>
                 /\ task'.op = "send"
                 /\ ws # NULL /\ socks[ws] = "OPEN"
                 /\ out'[i].sock = ws]_vars

\* send() while the handle is a socket that is still connecting
C9_Witness ==
    /\ task.op = "send"
    /\ out = <<>>
    /\ log = <<"warn: not connected">>
    /\ ws # NULL /\ socks[ws] = "CONNECTING"

\* C10: every open event transmits one ping, on the socket that opened.
C10_PingOnEveryOpen ==
    task.op = "open" => out = <<[sock |-> task.sock, data |-> Ping]>>

\* C11: when the open event of a socket has been handled, reconnectAttempts is
\* 0 and isConnected is true, whatever the counter was before.
C11_OpenResetsCounter ==
    task.op = "open" => (reconnectAttempts = 0 /\ isConnected)

\* a socket opens after a close had found the whole budget used up
C11_Witness ==
    /\ task.op = "open"
    /\ exhausted
    /\ reconnectAttempts = 0
    /\ isConnected

\* C12: when disconnect() returns, the socket the handle held (if any) has been
\* asked to close (a connecting or open socket is closing), the handle is null,
\* the observer list is empty and isConnected is false; nothing is thrown,
\* with or without a socket, and without one no socket changes.
C12_DisconnectClears ==
    [][task'.op = "disconnect" =>
          /\ ws' = NULL
          /\ callbacks' = <<>>
          /\ ~isConnected'
          /\ exc' = "none"
          /\ \A s \in Sockets :
                socks'[s] = IF s = ws THEN close(socks[s]) ELSE socks[s]
          /\ Len(socks') = Len(socks)]_vars

\* disconnect() after a connection had opened, its socket now closing
C12_Witness ==
    /\ task.op = "disconnect"
    /\ ws = NULL
    /\ callbacks = <<>>
    /\ ~isConnected
    /\ everOpened
    /\ \E s \in Sockets : socks[s] = "CLOSING"

\* C13: observers are called only by the handler of an inbound frame tagged
\* 'alert' or 'integration_status', with the frame's tag as kind and the frame
\* as payload; no other frame and no open, close, error or timer event (the
\* close that finds the reconnect budget used up included) calls an observer.
C13_ObserversCalledOnlyForFanOutFrames ==
    calls # <<>> =>
        /\ task.op = "message"
        /\ FanOut(task.frame)
        /\ \A i \in DOMAIN calls :
              /\ calls[i].kind = task.frame.type
              /\ calls[i].payload = [type |-> task.frame.type, alert_id |-> task.frame.alert_id]

\* the close that gives up, with observers registered and none called
C13_Witness ==
    /\ task.op = "close"
    /\ log = <<"disconnected", "error: max attempts">>
    /\ Len(callbacks) = MaxCallbacks
    /\ calls = <<>>

\* a is b with some elements left out
RECURSIVE IsSubseq(_, _)
IsSubseq(a, b) ==
    IF a = <<>> THEN TRUE
    ELSE IF b = <<>> THEN FALSE
    ELSE IF Head(a) = Head(b) THEN IsSubseq(Tail(a), Tail(b))
    ELSE IsSubseq(a, Tail(b))

\* the observers called, in the order of the calls
Called(cs) == [i \in DOMAIN cs |-> cs[i].cb]

\* the observers the callbacks of a fan-out ask to subscribe, in visiting order
SubscribedBy(behs) ==
    LET subs == SelectSeq(behs, LAMBDA b : b.act = "subscribe")
    IN  [i \in DOMAIN subs |-> subs[i].arg]

\* C14: within the fan-out of one inbound frame the observers are called in
\* the order of their subscription: the calls follow the observer list as it
\* was when the frame arrived, continued by the subscriptions made during the
\* fan-out, with registrations left out but never reordered or repeated (all
\* of them, in list order, when the callbacks only return or throw); and the
\* fan-out is one uninterrupted step: it starts when no handler is running and
\* every call it makes carries this frame.
C14_FanOutInSubscriptionOrder ==
    [][(task'.op = "message" /\ FanOut(task'.frame)) =>
          /\ task = Idle
          /\ IsSubseq(Called(calls'), callbacks \o SubscribedBy(task'.behs))
          /\ (\A i \in DOMAIN task'.behs : task'.behs[i].act \in {"return", "throw"}) =>
                Called(calls') = callbacks
          /\ \A i \in DOMAIN calls' :
                calls'[i].payload = [type |-> task'.frame.type,
                                     alert_id |-> task'.frame.alert_id]]_vars

\* observer 2 subscribed before observer 1 and was called before it
C14_Witness ==
    /\ task.op = "message"
    /\ FanOut(task.frame)
    /\ callbacks = <<2, 1>>
    /\ Called(calls) = <<2, 1>>

\* C15: every subscribe(observer) call appends the observer to the observer
\* list and transmits one {type: 'subscribe', timestamp} frame to the server,
\* also when it is called before connect().
C15_SubscribeSendsFrame ==
    [][task'.op = "subscribe" =>
          /\ callbacks' = Append(callbacks, task'.sock)
          /\ Len(out') = 1
          /\ out'[1].data = SubscribeMsg]_vars

\* C16: a tick of a startPing() loop transmits at most one frame, a ping on
\* the current handle, and only while the channel is connected (isConnected
\* is true and the handle is open); while isConnected is false a tick
\* transmits nothing; a tick changes no field of the channel.
C16_PingOnlyWhileConnected ==
    [][task'.op = "pingTick" =>
          /\ out' # <<>> =>
                /\ isConnected
                /\ ws # NULL /\ socks[ws] = "OPEN"
                /\ out' = <<[sock |-> ws, data |-> Ping]>>
          /\ ~isConnected => out' = <<>>
          /\ UNCHANGED <<socks, ws, callbacks, reconnectAttempts, isConnected, timers,
                         pingLoops, notifications>>]_vars

\* a tick while the flag is false although the current socket is open
C16_Witness ==
    /\ task.op = "pingTick"
    /\ ~isConnected
    /\ ws # NULL /\ socks[ws] = "OPEN"
    /\ out = <<>>

\* C17: a close event that finds reconnectAttempts below the maximum adds
\* exactly one to the counter and schedules exactly one reconnect, after
\* reconnectInterval whatever the attempt; one that finds the counter at the
\* maximum schedules nothing and leaves the counter as it is.
C17_CloseSchedulesOneReconnect ==
    [][task'.op = "close" =>
          IF reconnectAttempts < maxReconnectAttempts
          THEN /\ reconnectAttempts' = reconnectAttempts + 1
               /\ timers' = timers + 1
               /\ sched' = <<reconnectInterval>>
          ELSE /\ reconnectAttempts' = reconnectAttempts
               /\ timers' = timers
               /\ sched' = <<>>]_vars

\* the close that schedules the last reconnect of the budget
C17_Witness ==
    /\ task.op = "close"
    /\ reconnectAttempts = maxReconnectAttempts
    /\ sched = <<reconnectInterval>>
    /\ timers >= 1

\* C18: whenever connect() fails to establish a connection while the budget is
\* not used up, a reconnect is scheduled: by the close event of a socket that
\* never opened, and by the connect() call itself (the caller's or a reconnect
\* timer's) when creating the socket throws.
C18_FailedConnectSchedulesReconnect ==
    [][/\ (/\ task'.op = "close"
           /\ socks[task'.sock] = "CONNECTING"
           /\ reconnectAttempts < maxReconnectAttempts) => sched' # <<>>
       /\ (/\ task'.op \in {"connect", "timer"}
           /\ Len(socks') = Len(socks)
           /\ reconnectAttempts < maxReconnectAttempts) => sched' # <<>>]_vars

\* the sockets created by the channel that are connecting or open; the
\* channel's four handlers stay attached to every socket it created
Live == {s \in Sockets : socks[s] \in {"CONNECTING", "OPEN"}}

\* C19: in every reachable state at most one socket created by the channel is
\* open or connecting.
C19_OneLiveSocket == Cardinality(Live) <= 1

NoDuplicates(seq) == \A i, j \in DOMAIN seq : seq[i] = seq[j] => i = j

\* C20: the handler of an inbound frame creates a desktop notification exactly
\* when the frame is tagged 'alert' and the permission is 'granted' at that
\* moment: then one, tagged with the alert_id, taking the place of a visible
\* one with the same tag, so that no two visible notifications share an
\* alert_id; otherwise none, the visible ones being left alone. Whatever the
\* permission, the observers are called for the alert (the first registered
\* one always, all of them in order when the callbacks only return or throw).
C20_NotificationIffAlertAndGranted ==
    [][task'.op = "message" =>
          LET f == task'.frame
              isAlert == f.json = "object" /\ f.type = "alert"
          IN  /\ IF isAlert /\ permission = "granted"
                 THEN /\ shown' = <<f.alert_id>>
                      /\ notifications' =
                            Append(SelectSeq(notifications, LAMBDA tag : tag # f.alert_id),
                                   f.alert_id)
                 ELSE /\ shown' = <<>>
                      /\ notifications' = notifications
              /\ NoDuplicates(notifications')
              /\ (isAlert /\ callbacks # <<>>) =>
                    /\ calls' # <<>>
                    /\ calls'[1].cb = callbacks[1]
                    /\ calls'[1].kind = "alert"
                    /\ (\A i \in DOMAIN task'.behs :
                            task'.behs[i].act \in {"return", "throw"}) =>
                          Called(calls') = callbacks]_vars

\* an alert whose notification is visible arrives again after the permission
\* was revoked: the observers are called, no notification is created
C20_Witness ==
    /\ task.op = "message"
    /\ task.frame.type = "alert"
    /\ permission = "denied"
    /\ Has(notifications, task.frame.alert_id)
    /\ shown = <<>>
    /\ Len(calls) = MaxCallbacks

\* C21: requestNotificationPermission() prompts exactly when the permission is
\* 'default' (with 'granted', 'denied' or no Notification it returns at once,
\* true, false and false, showing no prompt and leaving the permission as it
\* is), and whenever it returns, at once or after the user's answer, it
\* returns true exactly when the permission is then 'granted'.
C21_PromptsOnlyWhenDefault ==
    [][\A i \in Observers :
          /\ (dash[i].setup = "none" /\ dash'[i].setup = "awaiting") =>
                /\ permission' = permission
                /\ IF permission = "default"
                   THEN prompt' /\ dash'[i].granted = "none"
                   ELSE prompt' = prompt /\ dash'[i].granted # "none"
          /\ (dash[i].granted = "none" /\ dash'[i].granted # "none") =>
                (dash'[i].granted = "true" <=> permission' = "granted")]_vars

\* the prompt is showing for a Dashboard whose setup waits for the answer
C21_Witness ==
    /\ prompt
    /\ permission = "default"
    /\ \E i \in Observers : dash[i].setup = "awaiting" /\ dash[i].granted = "none"

\* C22: at application start a stored token is used (sent to the server to
\* fetch the profile, and the session established on its word) only if it
\* passes the expiry check: it decodes and its exp claim is in the future.
C22_StoredTokenCheckedBeforeUse ==
    [][/\ ("getProfile" \in requests' /\ "getProfile" \notin requests) => isTokenValid(token)
       /\ ("getProfile" \in requests /\ "getProfile" \notin requests' /\ user' # NoUser) =>
             isTokenValid(token)]_vars

\* C30: whenever no operation of the AuthProvider is awaiting the server (and
\* the start-up check is over), a signed-in user implies a stored token.
C30_UserImpliesToken ==
    (requests = {} /\ ~loading) => (user # NoUser => token # NoToken)

\* C23: disconnect() cancels no reconnect timer: the timers pending when it is
\* called are pending when it returns, and a timer that fires while
\* disconnect() is the caller's last call still runs connect(), which
\* creates a socket and makes it the handle.
C23_DisconnectKeepsTimers ==
    [][/\ task'.op = "disconnect" => timers' = timers
       /\ (task'.op = "timer" /\ phase = "disconnected") =>
             /\ timers' = timers - 1
             /\ Len(socks') = Len(socks) + 1
             /\ socks'[Len(socks')] = "CONNECTING"
             /\ ws' = Len(socks')]_vars

\* disconnect() has returned with a reconnect timer still pending
C23_Witness ==
    /\ task.op = "disconnect"
    /\ timers >= 1
    /\ ws = NULL

\* C24: no operation stops a heartbeat loop and each startPing() adds one: the
\* number of loops changes only by a startPing() call, which adds one; and
\* every tick of a loop while the channel is connected (its current socket is
\* open) transmits one ping, so that k loops give k pings a period.
C24_EveryLoopPingsWhileConnected ==
    [][/\ pingLoops' = IF task'.op = "startPing" THEN pingLoops + 1 ELSE pingLoops
       /\ (task'.op = "pingTick" /\ ws # NULL /\ socks[ws] = "OPEN") =>
             out' = <<[sock |-> ws, data |-> Ping]>>]_vars

\* C24, where it holds: the loops are never stopped, and a tick transmits one
\* ping when isConnected is true and the current socket is open.
C24_LoopsNeverStop ==
    [][/\ pingLoops' = IF task'.op = "startPing" THEN pingLoops + 1 ELSE pingLoops
       /\ (task'.op = "pingTick" /\ isConnected /\ ws # NULL /\ socks[ws] = "OPEN") =>
             out' = <<[sock |-> ws, data |-> Ping]>>]_vars

\* the current socket handle is non-null and open: the condition under which
\* send() transmits
HandleOpen == ws # NULL /\ socks[ws] = "OPEN"

\* C25: in every reachable state isConnected is true exactly when the current
\* socket handle is non-null and open.
C25_FlagAgreesWithHandle == isConnected <=> HandleOpen

\* the Dashboard has been unmounted and is not mounted again (yet)
Unmounted ==
    /\ \E i \in Observers : dash[i].state = "unmounted"
    /\ \A i \in Observers : dash[i].state # "mounted"

\* C26: once the Dashboard has unmounted, the shared channel has no registered
\* observer and no open or connecting socket.
C26_CleanupIsEffective == Unmounted => (callbacks = <<>> /\ Live = {})

\* the handlers the platform runs for a socket or a reconnect timer
SocketEvents == {"open", "message", "close", "error", "timer"}

\* C27: socket open, message, close and error events and reconnect-timer
\* firings leave the observer list as it was (a message event as long as the
\* observers it calls only return or throw) and transmit no 'subscribe' frame;
\* an open event transmits nothing but the ping, so after an automatic
\* reconnect the same observers are registered in the same order and no
\* subscription was announced on the new connection.
C27_EventsKeepObservers ==
    [][(/\ task'.op \in SocketEvents
        /\ \A i \in DOMAIN task'.behs : task'.behs[i].act \in {"return", "throw"}) =>
          /\ callbacks' = callbacks
          /\ \A i \in DOMAIN out' : out'[i].data # SubscribeMsg
          /\ task'.op = "open" => \A i \in DOMAIN out' : out'[i].data = Ping]_vars

\* the socket made by a reconnect timer has opened with two observers
\* registered: the ping went out on it and nothing else
C27_Witness ==
    /\ task.op = "open"
    /\ task.sock > 1
    /\ task.sock = ws
    /\ callbacks = <<2, 1>>
    /\ out = <<[sock |-> ws, data |-> Ping]>>

\* C28: disconnect() and a connect() made by the caller leave
\* reconnectAttempts unchanged, and the counter goes down only in a socket's
\* open event, which sets it to 0: a budget used up by earlier closes stays
\* used up across disconnect() and connect() until a connection opens.
C28_OnlyOpenResetsAttempts ==
    [][/\ task'.op \in {"disconnect", "connect"} => reconnectAttempts' = reconnectAttempts
       /\ reconnectAttempts' < reconnectAttempts =>
             (task'.op = "open" /\ reconnectAttempts' = 0)]_vars

\* the caller has connected again after a disconnect() and the budget that
\* the earlier closes used up is still used up
C28_Witness ==
    /\ task.op = "connect"
    /\ phase = "again"
    /\ reconnectAttempts = maxReconnectAttempts
    /\ ws = Len(socks)

\* the Dashboard observer that is mounted has just been handed an alert
AlertDelivered ==
    /\ task.op = "message"
    /\ \E j \in DOMAIN calls : calls[j].kind = "alert" /\ dash[calls[j].cb].state = "mounted"

\* C29: realtimeAlerts never holds more than 10 entries, and each alert
\* delivered to the Dashboard observer is placed at the head of the list, the
\* entries before it move one place down in their order and the one that was
\* the tenth is dropped; nothing but an alert adds to the list.
C29_TenNewestFirst ==
    [][/\ Len(realtimeAlerts') <= 10
       /\ AlertDelivered' =>
             /\ realtimeAlerts'[1] = task'.frame.alert_id
             /\ Len(realtimeAlerts') =
                   IF Len(realtimeAlerts) < 10 THEN Len(realtimeAlerts) + 1 ELSE 10
             /\ \A k \in 2..Len(realtimeAlerts') : realtimeAlerts'[k] = realtimeAlerts[k - 1]
       /\ ~AlertDelivered' =>
             (realtimeAlerts' = realtimeAlerts \/ realtimeAlerts' = <<>>)]_vars

\* an alert 2 has arrived after ten alerts 1 or more: the list is full, the
\* new alert is at its head
C29_Witness ==
    /\ AlertDelivered
    /\ task.frame.alert_id = 2
    /\ realtimeAlerts = <<2, 1, 1, 1, 1, 1, 1, 1, 1, 1>>

====
